---- MODULE Spec2Model ----
(***************************************************************************)
(* Model of the per-session multi-agent Manager                            *)
(* (internal/llm/multiagent/manager.go).  One Manager, its RWMutex, the    *)
(* session row it loads from and saves to, and a set of goroutines that    *)
(* call its methods concurrently.  Every method is split at the points     *)
(* where another goroutine can observe or change shared memory.            *)
(***************************************************************************)
EXTENDS Integers, Sequences, FiniteSets, TLC

\* ---------------------------------------------------------------- bounds
NThreads == 2
MaxCalls == 2
MaxPersistedLen == 2

Threads == 1..NThreads

\* ------------------------------------------------------------- universe
AgentIDs == {"coder", "docs", "reviewer"}
UnknownID == "ghost"
None == "none"
NoThread == 0
NoWorker == [id |-> None, by |-> 0]
NoPre == [active |-> None, history |-> <<>>]
NoManager == [by |-> 0, n |-> 0]
NotLoaded == [called |-> FALSE]
SessionIDs == {"s1", "s2"}

ErrAgentNotFound == "agent not found"
ErrAgentNotAvailable == "agent not available in this session"
ErrNoAgentsConfigured == "no agents configured"
\* fmt.Errorf("failed to create agent %s: %w", agentID, err), line 297.
ErrFactory(id) == "failed to create agent " \o id
\* fmt.Errorf("failed to run agent %s: %w", m.activeAgent, err), line 319.
ErrRun(id) == "failed to run agent " \o id
\* fmt.Errorf("failed to update session agent state: %w", err), line 108.
ErrStore == "failed to update session agent state"
Ok == "nil"

\* Sets of descriptors a Manager is constructed with (agentConfigs keys).
ConfigChoices == {{"coder", "docs", "reviewer"}}

\* Sub-agent allow-list and default of each descriptor
\* (config.Agent.AllowedSubagents / DefaultSubagent).
AllowedSubagents == [a \in AgentIDs |-> IF a = "coder" THEN {"docs"} ELSE {}]
DefaultSubagent == [a \in AgentIDs |-> IF a = "coder" THEN "docs" ELSE None]

\* ------------------------------------------------------------ sequences
Range(s) == {s[i] : i \in 1..Len(s)}
NoDup(s) == \A i, j \in 1..Len(s) : s[i] = s[j] => i = j
Last(s) == s[Len(s)]
Perms(S) == {s \in [1..Cardinality(S) -> S] : \A i, j \in 1..Cardinality(S) : s[i] = s[j] => i = j}
RemoveAt(s, i) == SubSeq(s, 1, i - 1) \o SubSeq(s, i + 1, Len(s))

\* Position of the first element equal to x, 0 when there is none
\* (the `for i, id := range ... if id == x ... break` loops).
IndexOf(s, x) ==
  IF \E i \in 1..Len(s) : s[i] = x
  THEN CHOOSE i \in 1..Len(s) : s[i] = x /\ \A j \in 1..(i - 1) : s[j] # x
  ELSE 0

\* json.Marshal of a []string: the array text, as its token sequence.
jsonMarshal(h) == <<"[">> \o h \o <<"]">>
\* The session service's decoding of the agent_history column.
jsonUnmarshal(j) == SubSeq(j, 2, Len(j) - 1)

VARIABLES
  agentConfigs,    \* m.agentConfigs: ids of the configured descriptors
  agents,          \* m.agents: id -> worker instance (NoWorker = no entry)
  activeAgent,     \* m.activeAgent
  agentHistory,    \* m.agentHistory, as seen through the field's slice header
  mu,              \* m.mu: [writer (NoThread = unlocked), readers]
  store,           \* session row: [active, history (JSON)]
  pc,              \* per goroutine: position in the method it executes
  op,              \* per goroutine: method being / last executed
  arg,             \* per goroutine: agentID parameter / captured active id
  history,         \* per goroutine: local `history` / `historyJSON`
  agt,             \* per goroutine: worker obtained from getAgentInstance
  pre,             \* per goroutine: active/history when the lock was taken
  ret,             \* per goroutine: error returned by the last call
  dispatched,      \* per goroutine: worker whose Run the last Run invoked
  calls,           \* number of method calls started
  log,             \* lone caller: the calls made so far, oldest first
  busy,            \* workers with a request of the session in progress
  AgentManagers,   \* a.AgentManagers: session id -> Manager (NoManager = none)
  manager,         \* per goroutine: local `manager` of GetAgentManager
  entries,         \* the agents directory: its entries, in ReadDir order
  loaded           \* what LoadAgentsFromDirectory returned (NotLoaded = not called)

shared == <<agentConfigs, agents, activeAgent, agentHistory, mu, store>>
locals == <<pc, op, arg, history, agt, pre, ret, dispatched>>
\* The state of what surrounds the Manager: its workers' activity, the App's
\* registry of Managers and the loading of the agent descriptors.
apart == <<busy, AgentManagers, manager, entries, loaded>>
vars == <<agentConfigs, agents, activeAgent, agentHistory, mu, store, pc, op, arg,
          history, agt, pre, ret, dispatched, calls, log, busy, AgentManagers,
          manager, entries, loaded>>

\* --------------------------------------------------------------- RWMutex
\* Mutation of CanLock: Lock does not wait for anyone.
CanLock_NoExclusion == TRUE

CanLock == mu.writer = NoThread /\ mu.readers = {}
CanRLock == mu.writer = NoThread
Lock(t) == [mu EXCEPT !.writer = t]
Unlock == [mu EXCEPT !.writer = NoThread]
RLock(t) == [mu EXCEPT !.readers = @ \cup {t}]
\* Mutation of RUnlock: the read lock is kept.
RUnlock_Kept(t) == mu

RUnlock(t) == [mu EXCEPT !.readers = @ \ {t}]

\* Nothing but the Manager is in play: no worker is at work, no Manager is
\* registered, the descriptors are not being loaded.
ApartInit ==
  /\ busy = {}
  /\ AgentManagers = [s \in SessionIDs |-> NoManager]
  /\ manager = [t \in Threads |-> NoManager]
  /\ entries = <<>>
  /\ loaded = NotLoaded

\* ---------------------------------------------------------- construction
\* Session rows a Manager can find: the row CreateSession inserts
\* ('coder', '[]') and rows saved by an earlier Manager of the session,
\* here the non-empty prefixes of one visiting order.
PersistedOrder == <<"docs", "coder", "reviewer">>
PersistedStates ==
  {[active |-> "coder", history |-> jsonMarshal(<<>>)]} \cup
  {[active |-> PersistedOrder[k], history |-> jsonMarshal(SubSeq(PersistedOrder, 1, k))] :
     k \in 1..MaxPersistedLen}

\* Mutation of NoAgentsConfigured: the check is missing.
NoAgentsConfigured_Never(cfg) == FALSE

\* Lines 53-55: the check NewManager makes before anything else.
NoAgentsConfigured(cfg) == cfg = {}

\* Mutation of NewManagerAgents: the worker of "coder" is built at once.
NewManagerAgents_Eager ==
  [a \in AgentIDs |-> IF a = "coder" THEN [id |-> a, by |-> 1] ELSE NoWorker]

\* Line 58: the worker map NewManager makes is empty.
NewManagerAgents == [a \in AgentIDs |-> NoWorker]

\* NewManager's fallback when loading fails (lines 68-77): "coder" if
\* configured, else the first key the map iteration yields (any key); over an
\* empty map the loop body never runs and "coder" stays.
DefaultIDs(cfg) == IF "coder" \in cfg \/ cfg = {} THEN {"coder"} ELSE cfg

\* The row CreateSession inserts: active_agent_id 'coder', agent_history '[]'.
FreshRow == [active |-> "coder", history |-> jsonMarshal(<<>>)]

\* NewManager (lines 57-86): the loaded state, or the default when
\* sessionSvc.Get fails (the row is then taken to be the fresh one).
Init ==
  /\ agentConfigs \in ConfigChoices
  /\ \/ /\ store \in PersistedStates
        /\ activeAgent = store.active
        /\ agentHistory = jsonUnmarshal(store.history)
     \/ /\ store = FreshRow
        /\ \E d \in DefaultIDs(agentConfigs) :
             /\ activeAgent = d
             /\ agentHistory = <<d>>
  /\ agents = NewManagerAgents
  /\ mu = [writer |-> NoThread, readers |-> {}]
  /\ pc = [t \in Threads |-> "idle"]
  /\ op = [t \in Threads |-> None]
  /\ arg = [t \in Threads |-> None]
  /\ history = [t \in Threads |-> <<>>]
  /\ agt = [t \in Threads |-> NoWorker]
  /\ pre = [t \in Threads |-> NoPre]
  /\ ret = [t \in Threads |-> None]
  /\ dispatched = [t \in Threads |-> NoWorker]
  /\ calls = 0
  /\ log = <<>>
  /\ ApartInit

\* Positions whose next step reads and writes nothing but the goroutine's own
\* frame: the return, the call of the worker once it is resolved.
OwnPCs == {"done", "cancel332", "busy355", "run317"}

\* Such a step commutes with every step of the others; it is taken before
\* they go on.
Returning == \E t \in Threads : pc[t] \in OwnPCs

\* Goroutine t is at position l and may take its next step.
At(t, l) == pc[t] = l /\ (l \in OwnPCs \/ ~Returning)

\* Idle goroutines are interchangeable: a call is made by the first of them.
FirstIdle(t) == pc[t] = "idle" /\ \A u \in Threads : u < t => pc[u] # "idle"

\* Goroutine t may make a call.
Ready(t) == FirstIdle(t) /\ ~Returning /\ calls < MaxCalls

\* A goroutine enters method o with parameter x.  p is the active/history
\* pair at entry, r the error if the method reaches its return in this very
\* step, n the position it continues at ("done" = at its return).
Begin(t, o, x, p, r, n) ==
  /\ Ready(t)
  /\ calls' = calls + 1
  /\ pc' = [pc EXCEPT ![t] = n]
  /\ op' = [op EXCEPT ![t] = o]
  /\ arg' = [arg EXCEPT ![t] = x]
  /\ pre' = [pre EXCEPT ![t] = p]
  /\ ret' = [ret EXCEPT ![t] = r]
  /\ UNCHANGED <<history, agt, dispatched, log, apart>>

\* The method has returned: the goroutine's frame is gone and it is free to
\* make its next call.
Return(t) ==
  /\ pc[t] = "done"
  /\ pc' = [pc EXCEPT ![t] = "idle"]
  /\ op' = [op EXCEPT ![t] = None]
  /\ arg' = [arg EXCEPT ![t] = None]
  /\ history' = [history EXCEPT ![t] = <<>>]
  /\ agt' = [agt EXCEPT ![t] = NoWorker]
  /\ pre' = [pre EXCEPT ![t] = NoPre]
  /\ ret' = [ret EXCEPT ![t] = None]
  /\ dispatched' = [dispatched EXCEPT ![t] = NoWorker]
  /\ UNCHANGED <<agentConfigs, agents, activeAgent, agentHistory, mu, store,
                 calls, log, apart>>

Snapshot == [active |-> activeAgent, history |-> agentHistory]

\* What a method that only reads m.activeAgent finds at entry.
ActiveAtEntry == [active |-> activeAgent, history |-> <<>>]

\* ----------------------------------------------------------- SwitchAgent
\* Mutation of SwitchAgentExists: the check is skipped.
SwitchAgentExists_Always(x) == TRUE

\* The existence check of SwitchAgent (line 120).
SwitchAgentExists(x) == x \in agentConfigs

\* Lines 116-122: take the write lock; an unknown id returns
\* ErrAgentNotFound (the deferred Unlock runs), a known one proceeds.
SwitchAgent_Lock(t, x) ==
  /\ Ready(t)
  /\ CanLock
  /\ IF SwitchAgentExists(x)
     THEN /\ Begin(t, "SwitchAgent", x, Snapshot, None, "sw130")
          /\ mu' = Lock(t)
     ELSE /\ Begin(t, "SwitchAgent", x, Snapshot, ErrAgentNotFound, "done")
          /\ UNCHANGED mu
  /\ UNCHANGED <<agentConfigs, agents, activeAgent, agentHistory, store>>

\* Mutation of RemoveFirst: the removal loop never matches.
RemoveFirst_Keep(h, x) == h

\* The slice `history` after the removal loop: the first occurrence of x is
\* cut out by append(history[:i], history[i+1:]...).
RemoveFirst(h, x) == IF IndexOf(h, x) = 0 THEN h ELSE RemoveAt(h, IndexOf(h, x))

\* What the removal does to the array behind m.agentHistory: the elements
\* after position i move one place down, the old last element stays where it
\* was; the field's slice header (same length) still spans all of it.
ShiftedView(v, x) ==
  IF IndexOf(v, x) = 0 THEN v ELSE Append(RemoveAt(v, IndexOf(v, x)), Last(v))

\* What append(history, x) does to the array behind m.agentHistory: after a
\* removal the new element lands in the freed last slot of the same array,
\* otherwise it lands outside the span of the field's slice header.
AppendedView(v, h, x) ==
  IF Len(h) < Len(v) THEN [v EXCEPT ![Len(h) + 1] = x] ELSE v

\* Mutation of SwitchAgentAppend: the id is put at the head.
SwitchAgentAppend_Front(h, x) == <<x>> \o h

\* Line 140: append(history, agentID).
SwitchAgentAppend(h, x) == Append(h, x)

\* Lines 130-133: m.activeAgent = agentID; history := m.agentHistory.
SwitchAgent_130(t) ==
  /\ At(t, "sw130")
  /\ activeAgent' = arg[t]
  /\ history' = [history EXCEPT ![t] = agentHistory]
  /\ pc' = [pc EXCEPT ![t] = "sw134"]
  /\ UNCHANGED <<agentConfigs, agents, agentHistory, mu, store, op, arg, agt,
                 pre, ret, dispatched, calls, log, apart>>

\* Lines 134-139: the removal loop.
SwitchAgent_134(t) ==
  /\ At(t, "sw134")
  /\ history' = [history EXCEPT ![t] = RemoveFirst(history[t], arg[t])]
  /\ agentHistory' = ShiftedView(agentHistory, arg[t])
  /\ pc' = [pc EXCEPT ![t] = "sw140"]
  /\ UNCHANGED <<agentConfigs, agents, activeAgent, mu, store, op, arg, agt,
                 pre, ret, dispatched, calls, log, apart>>

\* Line 140: history = append(history, agentID).
SwitchAgent_140(t) ==
  /\ At(t, "sw140")
  /\ history' = [history EXCEPT ![t] = SwitchAgentAppend(history[t], arg[t])]
  /\ agentHistory' = AppendedView(agentHistory, history[t], arg[t])
  /\ pc' = [pc EXCEPT ![t] = "sw141"]
  /\ UNCHANGED <<agentConfigs, agents, activeAgent, mu, store, op, arg, agt,
                 pre, ret, dispatched, calls, log, apart>>

\* Lines 141-143: m.agentHistory = history; return nil (deferred Unlock).
SwitchAgent_141(t) ==
  /\ At(t, "sw141")
  /\ agentHistory' = history[t]
  /\ mu' = Unlock
  /\ ret' = [ret EXCEPT ![t] = Ok]
  /\ pc' = [pc EXCEPT ![t] = "done"]
  /\ UNCHANGED <<agentConfigs, agents, activeAgent, store, op, arg, history,
                 agt, pre, dispatched, calls, log, apart>>

\* ----------------------------------------------- CycleNext / CyclePrevious
\* getAvailableAgentIDs: the configured ids of the history in history order,
\* then the configured ids not yet added, in map-iteration order (rest).
getAvailableAgentIDs(rest) ==
  SelectSeq(agentHistory, LAMBDA id : id \in agentConfigs) \o rest

\* The orders the map iteration over agentConfigs can yield for the rest.
RestOrders == Perms(agentConfigs \ Range(agentHistory))

\* currentIndex (0-based): first position of the active id, 0 if absent.
currentIndex(available) ==
  IF IndexOf(available, activeAgent) = 0 THEN 0 ELSE IndexOf(available, activeAgent) - 1

\* Lines 204-205 and 230-231.
nextAgentID(available) ==
  available[((currentIndex(available) + 1) % Len(available)) + 1]
prevAgentID(available) ==
  available[((currentIndex(available) - 1 + Len(available)) % Len(available)) + 1]

\* The existence check of switchAgentInternal (line 262).
switchAgentInternalExists(x) == x \in agentConfigs

\* Mutation of NothingToCycle: only an empty list stops the cycle.
NothingToCycle_Empty(available) == Len(available) < 1

\* Lines 189-192 and 215-218: nothing to cycle to.
NothingToCycle(available) == Len(available) <= 1

\* Lock, compute the target; with at most one available id return nil at
\* once, else enter switchAgentInternal(target) with the lock held.
CycleEnter(t, o, available, target) ==
  /\ CanLock
  /\ IF NothingToCycle(available)
     THEN /\ Begin(t, o, None, Snapshot, Ok, "done")
          /\ UNCHANGED mu
     ELSE IF switchAgentInternalExists(target)
          THEN /\ Begin(t, o, target, Snapshot, None, "si266")
               /\ mu' = Lock(t)
          ELSE /\ Begin(t, o, target, Snapshot, ErrAgentNotFound, "done")
               /\ UNCHANGED mu
  /\ UNCHANGED <<agentConfigs, agents, activeAgent, agentHistory, store>>

\* Lines 185-207.
CycleNext_Lock(t) ==
  /\ Ready(t)
  /\ CanLock
  /\ \E rest \in RestOrders :
       CycleEnter(t, "CycleNext", getAvailableAgentIDs(rest),
                  IF Len(getAvailableAgentIDs(rest)) = 0 THEN None
                  ELSE nextAgentID(getAvailableAgentIDs(rest)))

\* Lines 211-233.
CyclePrevious_Lock(t) ==
  /\ Ready(t)
  /\ CanLock
  /\ \E rest \in RestOrders :
       CycleEnter(t, "CyclePrevious", getAvailableAgentIDs(rest),
                  IF Len(getAvailableAgentIDs(rest)) = 0 THEN None
                  ELSE prevAgentID(getAvailableAgentIDs(rest)))

\* switchAgentInternal repeats SwitchAgent's update (lines 266-277).
InternalRemoveFirst(h, x) == IF IndexOf(h, x) = 0 THEN h ELSE RemoveAt(h, IndexOf(h, x))
InternalShiftedView(v, x) ==
  IF IndexOf(v, x) = 0 THEN v ELSE Append(RemoveAt(v, IndexOf(v, x)), Last(v))
InternalAppendedView(v, h, x) ==
  IF Len(h) < Len(v) THEN [v EXCEPT ![Len(h) + 1] = x] ELSE v

\* Lines 266-269.
switchAgentInternal_266(t) ==
  /\ At(t, "si266")
  /\ activeAgent' = arg[t]
  /\ history' = [history EXCEPT ![t] = agentHistory]
  /\ pc' = [pc EXCEPT ![t] = "si270"]
  /\ UNCHANGED <<agentConfigs, agents, agentHistory, mu, store, op, arg, agt,
                 pre, ret, dispatched, calls, log, apart>>

\* Lines 270-275.
switchAgentInternal_270(t) ==
  /\ At(t, "si270")
  /\ history' = [history EXCEPT ![t] = InternalRemoveFirst(history[t], arg[t])]
  /\ agentHistory' = InternalShiftedView(agentHistory, arg[t])
  /\ pc' = [pc EXCEPT ![t] = "si276"]
  /\ UNCHANGED <<agentConfigs, agents, activeAgent, mu, store, op, arg, agt,
                 pre, ret, dispatched, calls, log, apart>>

\* Line 276.
switchAgentInternal_276(t) ==
  /\ At(t, "si276")
  /\ history' = [history EXCEPT ![t] = Append(history[t], arg[t])]
  /\ agentHistory' = InternalAppendedView(agentHistory, history[t], arg[t])
  /\ pc' = [pc EXCEPT ![t] = "si277"]
  /\ UNCHANGED <<agentConfigs, agents, activeAgent, mu, store, op, arg, agt,
                 pre, ret, dispatched, calls, log, apart>>

\* Lines 277-279, then the caller's deferred Unlock.
switchAgentInternal_277(t) ==
  /\ At(t, "si277")
  /\ agentHistory' = history[t]
  /\ mu' = Unlock
  /\ ret' = [ret EXCEPT ![t] = Ok]
  /\ pc' = [pc EXCEPT ![t] = "done"]
  /\ UNCHANGED <<agentConfigs, agents, activeAgent, store, op, arg, history,
                 agt, pre, dispatched, calls, log, apart>>

\* ------------------------------------------------------ getAgentInstance
\* Where a method continues once getAgentInstance has returned a worker and
\* the read lock is released.
AfterInstance(o) ==
  CASE o = "CurrentAgent" -> "done"
    [] o = "Run" -> "run312"
    [] o = "Cancel" -> "cancel332"
    [] o = "IsSessionBusy" -> "busy355"
    [] o = "RunAs" -> "runas_run"

\* The result of a method that ends as soon as the worker is returned.
AfterInstanceRet(o) == IF o = "CurrentAgent" THEN Ok ELSE None

\* CurrentAgent, Cancel and IsSessionBusy: RLock, then
\* getAgentInstance(m.activeAgent); the argument is read here, once.
\* Run enters through its call of CurrentAgent (line 306).
ReadActive_RLock(t, o) ==
  /\ Ready(t)
  /\ CanRLock
  /\ Begin(t, o, activeAgent, ActiveAtEntry, None, "gai284")
  /\ mu' = RLock(t)
  /\ UNCHANGED <<agentConfigs, agents, activeAgent, agentHistory, store>>

\* Lines 147-151.
CurrentAgent_RLock(t) == ReadActive_RLock(t, "CurrentAgent")
\* Lines 305-306.
Run_CurrentAgent(t) == ReadActive_RLock(t, "Run")
\* Lines 326-328.
Cancel_RLock(t) == ReadActive_RLock(t, "Cancel")
\* Lines 347-349.
IsSessionBusy_RLock(t) == ReadActive_RLock(t, "IsSessionBusy")

\* Lines 284-291: map lookup; a hit returns the stored worker, an unknown id
\* returns ErrAgentNotFound, otherwise the factory is called (line 295).
getAgentInstance_284(t) ==
  /\ At(t, "gai284")
  /\ IF agents[arg[t]] # NoWorker
     THEN /\ agt' = [agt EXCEPT ![t] = agents[arg[t]]]
          /\ mu' = RUnlock(t)
          /\ pc' = [pc EXCEPT ![t] = AfterInstance(op[t])]
          /\ ret' = [ret EXCEPT ![t] = AfterInstanceRet(op[t])]
     ELSE IF arg[t] \notin agentConfigs
          THEN /\ ret' = [ret EXCEPT ![t] = ErrAgentNotFound]
               /\ mu' = RUnlock(t)
               /\ pc' = [pc EXCEPT ![t] = "done"]
               /\ UNCHANGED agt
          ELSE /\ pc' = [pc EXCEPT ![t] = "gai295"]
               /\ UNCHANGED <<agt, mu, ret>>
  /\ UNCHANGED <<agentConfigs, agents, activeAgent, agentHistory, store, op,
                 arg, history, pre, dispatched, calls, log, apart>>

\* Mutation of FactoryFailed: the nil result is stored before the error is
\* looked at.
FactoryFailed_Stored(id) == [agents EXCEPT ![id] = [id |-> id, by |-> 0]]

\* Lines 296-298: the worker map after a factory error (nothing is stored).
FactoryFailed(id) == agents

\* Lines 295-298: the factory returns a new worker or an error.
getAgentInstance_295(t) ==
  /\ At(t, "gai295")
  /\ \/ /\ agt' = [agt EXCEPT ![t] = [id |-> arg[t], by |-> t]]
        /\ pc' = [pc EXCEPT ![t] = "gai300"]
        /\ UNCHANGED <<agents, mu, ret>>
     \/ /\ ret' = [ret EXCEPT ![t] = ErrFactory(arg[t])]
        /\ agents' = FactoryFailed(arg[t])
        /\ mu' = RUnlock(t)
        /\ pc' = [pc EXCEPT ![t] = "done"]
        /\ UNCHANGED agt
  /\ UNCHANGED <<agentConfigs, activeAgent, agentHistory, store, op,
                 arg, history, pre, dispatched, calls, log, apart>>

\* Lines 300-301: m.agents[agentID] = agt; return; the caller RUnlocks.
getAgentInstance_300(t) ==
  /\ At(t, "gai300")
  /\ agents' = [agents EXCEPT ![arg[t]] = agt[t]]
  /\ mu' = RUnlock(t)
  /\ pc' = [pc EXCEPT ![t] = AfterInstance(op[t])]
  /\ ret' = [ret EXCEPT ![t] = AfterInstanceRet(op[t])]
  /\ UNCHANGED <<agentConfigs, activeAgent, agentHistory, store, op, arg,
                 history, agt, pre, dispatched, calls, log, apart>>

\* ------------------------------------------------------------------- Run
\* Line 101 (in saveSessionAgentState, called at line 312 with no lock
\* held): json.Marshal(m.agentHistory).
saveSessionAgentState_101(t) ==
  /\ At(t, "run312")
  /\ history' = [history EXCEPT ![t] = jsonMarshal(agentHistory)]
  /\ pc' = [pc EXCEPT ![t] = "save106"]
  /\ UNCHANGED <<agentConfigs, agents, activeAgent, agentHistory, mu, store,
                 op, arg, agt, pre, ret, dispatched, calls, log, apart>>

\* Mutation of AfterSaveFailed: Run gives up when the state cannot be saved.
AfterSaveFailed_Fatal == "done"

\* Lines 312-314: where Run continues when saveSessionAgentState returned an
\* error (it is logged, nothing else).
AfterSaveFailed == "run317"

\* Lines 106-111 and 312-314: UpdateAgent(sessionID, m.activeAgent, json);
\* on a store error Run's `err` holds it, Run logs it and goes on.
saveSessionAgentState_106(t) ==
  /\ At(t, "save106")
  /\ \/ /\ store' = [active |-> activeAgent, history |-> history[t]]
        /\ pc' = [pc EXCEPT ![t] = "run317"]
        /\ UNCHANGED ret
     \/ /\ ret' = [ret EXCEPT ![t] = ErrStore]
        /\ pc' = [pc EXCEPT ![t] = AfterSaveFailed]
        /\ UNCHANGED store
  /\ UNCHANGED <<agentConfigs, agents, activeAgent, agentHistory, mu, op, arg,
                 history, agt, pre, dispatched, calls, log, apart>>

\* Mutation of RunTarget: the worker is resolved anew from m.activeAgent at
\* dispatch.
RunTarget_Reread(t) == [id |-> activeAgent, by |-> t]

\* The worker Run calls at line 317: currentAgent, obtained at line 306.
RunTarget(t) == agt[t]

\* Line 317: currentAgent.Run(...) is called.
Run_317(t) ==
  /\ At(t, "run317")
  /\ dispatched' = [dispatched EXCEPT ![t] = RunTarget(t)]
  /\ pc' = [pc EXCEPT ![t] = "run318"]
  /\ UNCHANGED <<agentConfigs, agents, activeAgent, agentHistory, mu, store,
                 op, arg, history, agt, pre, ret, calls, log, apart>>

\* Lines 317-322: the worker's Run returns; Run returns its events, or its
\* error wrapped with m.activeAgent as read now.
Run_318(t) ==
  /\ At(t, "run318")
  /\ \E r \in {Ok, ErrRun(activeAgent)} : ret' = [ret EXCEPT ![t] = r]
  /\ pc' = [pc EXCEPT ![t] = "done"]
  /\ UNCHANGED <<agentConfigs, agents, activeAgent, agentHistory, mu, store,
                 op, arg, history, agt, pre, dispatched, calls, log, apart>>

\* ---------------------------------------------------------------- Cancel
\* Lines 331-333: currentAgent.Cancel(sessionID).
Cancel_332(t) ==
  /\ At(t, "cancel332")
  /\ ret' = [ret EXCEPT ![t] = Ok]
  /\ pc' = [pc EXCEPT ![t] = "done"]
  /\ UNCHANGED <<agentConfigs, agents, activeAgent, agentHistory, mu, store,
                 op, arg, history, agt, pre, dispatched, calls, log, apart>>

\* --------------------------------------------------------- IsSessionBusy
\* Line 355: return currentAgent.IsSessionBusy(sessionID).
IsSessionBusy_355(t) ==
  /\ At(t, "busy355")
  /\ ret' = [ret EXCEPT ![t] = Ok]
  /\ pc' = [pc EXCEPT ![t] = "done"]
  /\ UNCHANGED <<agentConfigs, agents, activeAgent, agentHistory, mu, store,
                 op, arg, history, agt, pre, dispatched, calls, log, apart>>

\* ----------------------------------------------------------------- RunAs
\* The sub-agent a delegation targets: the given id, or the parent's
\* default when none is given.
RunAsTarget_NoDefault(parent, sub) == sub

RunAsTarget(parent, sub) == IF sub = None THEN DefaultSubagent[parent] ELSE sub

\* What a RunAs finds at entry, with the parent and sub-agent ids it is given.
RunAsEntry(parent, sub) ==
  [active |-> activeAgent, history |-> <<>>, parent |-> parent, sub |-> sub]

\* RunAs(parent, sub, content): a target outside the parent's allow-list is
\* refused with ErrAgentNotAvailable; otherwise the target's worker is
\* resolved through getAgentInstance.
RunAs_Resolve(t, parent, sub) ==
  /\ Ready(t)
  /\ CanRLock
  /\ IF RunAsTarget(parent, sub) \in AllowedSubagents[parent]
     THEN /\ Begin(t, "RunAs", RunAsTarget(parent, sub), RunAsEntry(parent, sub),
                   None, "gai284")
          /\ mu' = RLock(t)
     ELSE /\ Begin(t, "RunAs", RunAsTarget(parent, sub), RunAsEntry(parent, sub),
                   ErrAgentNotAvailable, "done")
          /\ UNCHANGED mu
  /\ UNCHANGED <<agentConfigs, agents, activeAgent, agentHistory, store>>

\* Mutation of RunAs_Run: the delegation switches the session's active agent
\* to the sub-agent before it runs.
RunAs_Run_Switching(t) ==
  /\ At(t, "runas_run")
  /\ activeAgent' = arg[t]
  /\ dispatched' = [dispatched EXCEPT ![t] = agt[t]]
  /\ \E r \in {Ok, ErrRun(arg[t])} : ret' = [ret EXCEPT ![t] = r]
  /\ pc' = [pc EXCEPT ![t] = "done"]
  /\ UNCHANGED <<agentConfigs, agents, agentHistory, mu, store,
                 op, arg, history, agt, pre, calls, log, apart>>

\* RunAs dispatches Run on the resolved worker directly.
RunAs_Run(t) ==
  /\ At(t, "runas_run")
  /\ dispatched' = [dispatched EXCEPT ![t] = agt[t]]
  /\ \E r \in {Ok, ErrRun(arg[t])} : ret' = [ret EXCEPT ![t] = r]
  /\ pc' = [pc EXCEPT ![t] = "done"]
  /\ UNCHANGED <<agentConfigs, agents, activeAgent, agentHistory, mu, store,
                 op, arg, history, agt, pre, calls, log, apart>>

Next ==
  \E t \in Threads :
    \/ \E x \in AgentIDs \cup {UnknownID} : SwitchAgent_Lock(t, x)
    \/ SwitchAgent_130(t)
    \/ SwitchAgent_134(t)
    \/ SwitchAgent_140(t)
    \/ SwitchAgent_141(t)
    \/ CycleNext_Lock(t)
    \/ CyclePrevious_Lock(t)
    \/ switchAgentInternal_266(t)
    \/ switchAgentInternal_270(t)
    \/ switchAgentInternal_276(t)
    \/ switchAgentInternal_277(t)
    \/ CurrentAgent_RLock(t)
    \/ Run_CurrentAgent(t)
    \/ Cancel_RLock(t)
    \/ IsSessionBusy_RLock(t)
    \/ getAgentInstance_284(t)
    \/ getAgentInstance_295(t)
    \/ getAgentInstance_300(t)
    \/ saveSessionAgentState_101(t)
    \/ saveSessionAgentState_106(t)
    \/ Run_317(t)
    \/ Run_318(t)
    \/ Cancel_332(t)
    \/ IsSessionBusy_355(t)
    \/ \E parent \in agentConfigs, sub \in AgentIDs \cup {None} : RunAs_Resolve(t, parent, sub)
    \/ RunAs_Run(t)
    \/ Return(t)

Spec == Init /\ [][Next]_vars

\* ============================================================ a lone caller
\* The same Manager used by one goroutine only: every method runs from its
\* Lock/RLock to its return with nothing in between, and construction is a
\* step of its own.  log records the calls made.
MaxSeqCalls == 5
MaxWorkCalls == 4
MaxAppCalls == 3
MaxEntries == 2

\* Descriptor sets NewManager is called with.
SeqConfigChoices ==
  {{}, {"coder"}, {"docs", "reviewer"}, {"coder", "docs", "reviewer"}}

frames == <<mu, pc, op, arg, history, agt, pre, ret, dispatched, calls, apart>>

\* Before NewManager: the descriptors and the session row it will be given.
SeqInit ==
  /\ agentConfigs \in SeqConfigChoices
  /\ store \in PersistedStates
  /\ activeAgent = None
  /\ agentHistory = <<>>
  /\ agents = [a \in AgentIDs |-> NoWorker]
  /\ mu = [writer |-> NoThread, readers |-> {}]
  /\ pc = [t \in Threads |-> "idle"]
  /\ op = [t \in Threads |-> None]
  /\ arg = [t \in Threads |-> None]
  /\ history = [t \in Threads |-> <<>>]
  /\ agt = [t \in Threads |-> NoWorker]
  /\ pre = [t \in Threads |-> NoPre]
  /\ ret = [t \in Threads |-> None]
  /\ dispatched = [t \in Threads |-> NoWorker]
  /\ calls = 0
  /\ log = <<>>
  /\ ApartInit

\* The call o(x) returns r; it made g calls of sessionSvc.Get and m calls of
\* agentFactory; e tells whether loadSessionAgentState failed in it.
Called(o, x, r, g, m, e) ==
  log' = Append(log, [op |-> o, arg |-> x, ret |-> r, from |-> activeAgent,
                      to |-> activeAgent', gets |-> g, made |-> m, loadErr |-> e])

\* A Manager was returned by NewManager and the caller may go on.
Callable == log # <<>> /\ log[1].ret = Ok /\ Len(log) <= MaxSeqCalls

\* NewManager (lines 44-87).  When sessionSvc.Get fails the row plays no
\* part; it is then taken to be the fresh one.
NewManager ==
  /\ log = <<>>
  /\ IF NoAgentsConfigured(agentConfigs)
     THEN /\ UNCHANGED <<agents, activeAgent, agentHistory>>
          /\ Called("NewManager", None, ErrNoAgentsConfigured, 0, 0, FALSE)
     ELSE /\ agents' = NewManagerAgents
          /\ \/ /\ activeAgent' = store.active
                /\ agentHistory' = jsonUnmarshal(store.history)
                /\ Called("NewManager", None, Ok, 1, 0, FALSE)
             \/ /\ store = FreshRow
                /\ \E d \in DefaultIDs(agentConfigs) :
                     /\ activeAgent' = d
                     /\ agentHistory' = <<d>>
                /\ Called("NewManager", None, Ok, 1, 0, TRUE)
  /\ UNCHANGED <<agentConfigs, store, frames>>

\* SwitchAgent (lines 115-144).
SwitchAgent(x) ==
  /\ Callable
  /\ IF SwitchAgentExists(x)
     THEN /\ activeAgent' = x
          /\ agentHistory' = SwitchAgentAppend(RemoveFirst(agentHistory, x), x)
          /\ Called("SwitchAgent", x, Ok, 0, 0, FALSE)
     ELSE /\ UNCHANGED <<activeAgent, agentHistory>>
          /\ Called("SwitchAgent", x, ErrAgentNotFound, 0, 0, FALSE)
  /\ UNCHANGED <<agentConfigs, agents, store, frames>>

\* switchAgentInternal (lines 261-280), called by o with the lock held.
switchAgentInternal(o, x) ==
  IF switchAgentInternalExists(x)
  THEN /\ activeAgent' = x
       /\ agentHistory' = Append(InternalRemoveFirst(agentHistory, x), x)
       /\ Called(o, x, Ok, 0, 0, FALSE)
  ELSE /\ UNCHANGED <<activeAgent, agentHistory>>
       /\ Called(o, x, ErrAgentNotFound, 0, 0, FALSE)

\* CycleNext (lines 185-208).
CycleNext ==
  /\ Callable
  /\ \E rest \in RestOrders :
       IF NothingToCycle(getAvailableAgentIDs(rest))
       THEN /\ UNCHANGED <<activeAgent, agentHistory>>
            /\ Called("CycleNext", None, Ok, 0, 0, FALSE)
       ELSE switchAgentInternal("CycleNext", nextAgentID(getAvailableAgentIDs(rest)))
  /\ UNCHANGED <<agentConfigs, agents, store, frames>>

\* CyclePrevious (lines 211-234).
CyclePrevious ==
  /\ Callable
  /\ \E rest \in RestOrders :
       IF NothingToCycle(getAvailableAgentIDs(rest))
       THEN /\ UNCHANGED <<activeAgent, agentHistory>>
            /\ Called("CyclePrevious", None, Ok, 0, 0, FALSE)
       ELSE switchAgentInternal("CyclePrevious", prevAgentID(getAvailableAgentIDs(rest)))
  /\ UNCHANGED <<agentConfigs, agents, store, frames>>

\* CurrentAgent (lines 147-152) with getAgentInstance (lines 283-302).
CurrentAgent ==
  /\ Callable
  /\ UNCHANGED <<agentConfigs, activeAgent, agentHistory, store, frames>>
  /\ IF agents[activeAgent] # NoWorker
     THEN /\ UNCHANGED agents
          /\ Called("CurrentAgent", activeAgent, Ok, 0, 0, FALSE)
     ELSE IF activeAgent \notin agentConfigs
          THEN /\ UNCHANGED agents
               /\ Called("CurrentAgent", activeAgent, ErrAgentNotFound, 0, 0, FALSE)
          ELSE \/ /\ agents' = [agents EXCEPT ![activeAgent] = [id |-> activeAgent, by |-> 1]]
                  /\ Called("CurrentAgent", activeAgent, Ok, 0, 1, FALSE)
               \/ /\ agents' = FactoryFailed(activeAgent)
                  /\ Called("CurrentAgent", activeAgent, ErrFactory(activeAgent), 0, 1, FALSE)

SeqNext ==
  \/ NewManager
  \/ \E x \in agentConfigs \cup {UnknownID} : SwitchAgent(x)
  \/ CycleNext
  \/ CyclePrevious
  \/ CurrentAgent

SeqSpec == SeqInit /\ [][SeqNext]_vars

\* ------------------------------------------------------ CancelAll / Close
\* Line 338: CancelAll takes the read lock.  It is entered by a caller, or by
\* Close at line 385, which holds the write lock it took at line 382.
CancelAll_RLock(t) ==
  /\ CanRLock
  /\ IF pc[t] = "close385"
     THEN /\ At(t, "close385")
          /\ pc' = [pc EXCEPT ![t] = "ca341"]
          /\ UNCHANGED <<op, arg, pre, ret, calls, history, agt, dispatched, log, apart>>
     ELSE Begin(t, "CancelAll", None, ActiveAtEntry, None, "ca341")
  /\ mu' = RLock(t)
  /\ UNCHANGED <<agentConfigs, agents, activeAgent, agentHistory, store>>

\* Lines 341-343 and the deferred RUnlock: every worker of the map is
\* cancelled; a CancelAll made by Close returns into Close, whose deferred
\* Unlock (line 383) then runs.
CancelAll_341(t) ==
  /\ At(t, "ca341")
  /\ busy' = busy \ {a \in AgentIDs : agents[a] # NoWorker}
  /\ mu' = IF op[t] = "Close"
           THEN [writer |-> NoThread, readers |-> mu.readers \ {t}]
           ELSE RUnlock(t)
  /\ ret' = [ret EXCEPT ![t] = Ok]
  /\ pc' = [pc EXCEPT ![t] = "done"]
  /\ UNCHANGED <<agentConfigs, agents, activeAgent, agentHistory, store, op, arg,
                 history, agt, pre, dispatched, calls, log, AgentManagers, manager,
                 entries, loaded>>

\* Lines 381-385: Close takes the write lock and calls CancelAll.
Close_Lock(t) ==
  /\ CanLock
  /\ Begin(t, "Close", None, ActiveAtEntry, None, "close385")
  /\ mu' = Lock(t)
  /\ UNCHANGED <<agentConfigs, agents, activeAgent, agentHistory, store>>

CloseNext ==
  \E t \in Threads :
    \/ CurrentAgent_RLock(t)
    \/ getAgentInstance_284(t)
    \/ getAgentInstance_295(t)
    \/ getAgentInstance_300(t)
    \/ CancelAll_RLock(t)
    \/ CancelAll_341(t)
    \/ Close_Lock(t)
    \/ Return(t)

\* Every goroutine that can take a step is scheduled sooner or later.
CloseSpec == Init /\ [][CloseNext]_vars /\ WF_vars(CloseNext)

\* ------------------------------------- a Manager rebuilt from a torn row
\* A session row that a Run wrote while a SwitchAgent was in the middle of
\* its update (saveSessionAgentState reads m.activeAgent and m.agentHistory
\* with no lock held): with history [docs, coder] and SwitchAgent("docs")
\* between its lines 136 and 140, the row is ('docs', ["coder","coder"]).
TornStates == {[active |-> "docs", history |-> jsonMarshal(<<"coder", "coder">>)]}

\* Before NewManager is called for a session whose row is torn.
RestartInit ==
  /\ agentConfigs = AgentIDs
  /\ store \in TornStates
  /\ activeAgent = None
  /\ agentHistory = <<>>
  /\ agents = [a \in AgentIDs |-> NoWorker]
  /\ mu = [writer |-> NoThread, readers |-> {}]
  /\ pc = [t \in Threads |-> "idle"]
  /\ op = [t \in Threads |-> None]
  /\ arg = [t \in Threads |-> None]
  /\ history = [t \in Threads |-> <<>>]
  /\ agt = [t \in Threads |-> NoWorker]
  /\ pre = [t \in Threads |-> NoPre]
  /\ ret = [t \in Threads |-> None]
  /\ dispatched = [t \in Threads |-> NoWorker]
  /\ calls = 0
  /\ log = <<>>
  /\ ApartInit

RestartSpec == RestartInit /\ [][SeqNext]_vars

\* ------------------------------------------- a lone caller and the workers
\* The Manager's calls on its workers, each call taken as a whole.  busy holds
\* the ids of the agents whose worker is at work for the session; log holds
\* the last call: its result ret, its answer is when it asks a question, and
\* in sent the workers it called, in the order it called them.
Did(o, r, b, w) ==
  /\ calls < MaxWorkCalls
  /\ calls' = calls + 1
  /\ log' = <<[op |-> o, ret |-> r, is |-> b, sent |-> w]>>

WorkFrames == <<agentConfigs, mu, pc, op, arg, history, agt, pre, ret, dispatched,
                AgentManagers, manager, entries, loaded>>

\* Mutation of getAgentInstance: the id is not looked up in agentConfigs.
getAgentInstance_Unchecked(id) ==
  IF agents[id] # NoWorker
  THEN {[agt |-> agents[id], agents |-> agents, err |-> Ok]}
  ELSE {[agt |-> [id |-> id, by |-> 1],
         agents |-> [agents EXCEPT ![id] = [id |-> id, by |-> 1]], err |-> Ok],
        [agt |-> NoWorker, agents |-> FactoryFailed(id), err |-> ErrFactory(id)]}

\* getAgentInstance (lines 283-302): the outcomes of resolving the worker of
\* id, each with the worker returned, the map left behind and the error.
getAgentInstance(id) ==
  IF agents[id] # NoWorker
  THEN {[agt |-> agents[id], agents |-> agents, err |-> Ok]}
  ELSE IF id \notin agentConfigs
       THEN {[agt |-> NoWorker, agents |-> agents, err |-> ErrAgentNotFound]}
       ELSE {[agt |-> [id |-> id, by |-> 1],
              agents |-> [agents EXCEPT ![id] = [id |-> id, by |-> 1]], err |-> Ok],
             [agt |-> NoWorker, agents |-> FactoryFailed(id), err |-> ErrFactory(id)]}

\* The ids of the workers in a sequence of workers.
IDs(w) == {w[i].id : i \in 1..Len(w)}

\* The workers in m.agents.
Instantiated == {agents[a] : a \in {x \in AgentIDs : agents[x] # NoWorker}}

\* SwitchAgent (lines 115-144), the whole call: the fields are written and
\* nothing else; the session row is not touched.
SwitchAgent_Call(x) ==
  /\ IF SwitchAgentExists(x)
     THEN /\ activeAgent' = x
          /\ agentHistory' = SwitchAgentAppend(RemoveFirst(agentHistory, x), x)
          /\ Did("SwitchAgent", Ok, FALSE, <<>>)
     ELSE /\ UNCHANGED <<activeAgent, agentHistory>>
          /\ Did("SwitchAgent", ErrAgentNotFound, FALSE, <<>>)
  /\ UNCHANGED <<agents, store, busy, WorkFrames>>

\* Run (lines 305-323): the active agent's worker is resolved, the row is
\* written (a failure is only logged), and the worker is run; a worker that
\* accepts the run is at work from then on.
Run ==
  /\ \E g \in getAgentInstance(activeAgent) :
       /\ agents' = g.agents
       /\ IF g.err # Ok
          THEN /\ Did("Run", g.err, FALSE, <<>>)
               /\ UNCHANGED <<store, busy>>
          ELSE /\ \/ store' = [active |-> activeAgent,
                               history |-> jsonMarshal(agentHistory)]
                  \/ UNCHANGED store
               /\ \/ /\ busy' = busy \cup {g.agt.id}
                     /\ Did("Run", Ok, FALSE, <<g.agt>>)
                  \/ /\ UNCHANGED busy
                     /\ Did("Run", ErrRun(activeAgent), FALSE, <<g.agt>>)
  /\ UNCHANGED <<activeAgent, agentHistory, WorkFrames>>

\* Mutation of CancelTargets: every worker in the map is cancelled.
CancelTargets_All(w) == CHOOSE q \in Perms(Instantiated \cup {w}) : TRUE

\* Lines 331-333: Cancel calls Cancel of the worker it resolved.
CancelTargets(w) == <<w>>

\* Cancel (lines 326-334), called as o: nothing is called when the active
\* agent's worker cannot be resolved; a cancelled worker stops working.
CancelAs(o) ==
  /\ \E g \in getAgentInstance(activeAgent) :
       /\ agents' = g.agents
       /\ IF g.err # Ok
          THEN /\ Did(o, g.err, FALSE, <<>>)
               /\ UNCHANGED busy
          ELSE /\ busy' = busy \ IDs(CancelTargets(g.agt))
               /\ Did(o, Ok, FALSE, CancelTargets(g.agt))
  /\ UNCHANGED <<activeAgent, agentHistory, store, WorkFrames>>

Cancel == CancelAs("Cancel")

\* App.Shutdown (app.go lines 213-218), as it acts on the Manager of one
\* session: it calls manager.Cancel(sessionID).
Shutdown == CancelAs("Shutdown")

\* Mutation of CancelAllTargets: only the active agent's worker is cancelled.
CancelAllTargets_ActiveOnly ==
  IF agents[activeAgent] = NoWorker THEN {<<>>} ELSE {<<agents[activeAgent]>>}

\* Lines 341-343: the loop over m.agents calls CancelAll of each worker, in
\* the order the map iteration yields them (any order).
CancelAllTargets == Perms(Instantiated)

\* CancelAll (lines 337-344).
CancelAll ==
  /\ \E w \in CancelAllTargets :
       /\ busy' = busy \ IDs(w)
       /\ Did("CancelAll", Ok, FALSE, w)
  /\ UNCHANGED <<agents, activeAgent, agentHistory, store, WorkFrames>>

\* Mutation of IsBusyResult: only the active agent's worker is asked.
IsBusyResult_ActiveOnly == activeAgent \in busy

\* Lines 363-368: true at the first worker of the map that is busy.
IsBusyResult == \E w \in Instantiated : w.id \in busy

\* IsBusy (lines 359-369).
IsBusy ==
  /\ Did("IsBusy", Ok, IsBusyResult, <<>>)
  /\ UNCHANGED <<agents, activeAgent, agentHistory, store, busy, WorkFrames>>

\* IsSessionBusy (lines 347-356): false when the active agent's worker
\* cannot be resolved, else what that worker answers.
IsSessionBusy ==
  /\ \E g \in getAgentInstance(activeAgent) :
       /\ agents' = g.agents
       /\ IF g.err # Ok
          THEN Did("IsSessionBusy", g.err, FALSE, <<>>)
          ELSE Did("IsSessionBusy", Ok, g.agt.id \in busy, <<g.agt>>)
  /\ UNCHANGED <<activeAgent, agentHistory, store, busy, WorkFrames>>

\* A worker finishes the run it was given.
WorkerDone(a) ==
  /\ a \in busy
  /\ busy' = busy \ {a}
  /\ UNCHANGED <<agents, activeAgent, agentHistory, store, calls, log, WorkFrames>>

WorkNext ==
  \/ \E x \in agentConfigs \cup {UnknownID} : SwitchAgent_Call(x)
  \/ Run
  \/ Cancel
  \/ Shutdown
  \/ CancelAll
  \/ IsBusy
  \/ IsSessionBusy
  \/ \E a \in AgentIDs : WorkerDone(a)

\* The descriptors a Manager is built with: all three agents, or two of them
\* with "coder" missing, which a session row can still name.
WorkConfigChoices == {AgentIDs, {"docs", "reviewer"}}

\* NewManager (lines 57-86) has returned a Manager: the state it loaded, or
\* the default when sessionSvc.Get failed.
WorkInit ==
  /\ agentConfigs \in WorkConfigChoices
  /\ \/ /\ store \in PersistedStates
        /\ activeAgent = store.active
        /\ agentHistory = jsonUnmarshal(store.history)
     \/ /\ store = FreshRow
        /\ \E d \in DefaultIDs(agentConfigs) :
             /\ activeAgent = d
             /\ agentHistory = <<d>>
  /\ agents = NewManagerAgents
  /\ mu = [writer |-> NoThread, readers |-> {}]
  /\ pc = [t \in Threads |-> "idle"]
  /\ op = [t \in Threads |-> None]
  /\ arg = [t \in Threads |-> None]
  /\ history = [t \in Threads |-> <<>>]
  /\ agt = [t \in Threads |-> NoWorker]
  /\ pre = [t \in Threads |-> NoPre]
  /\ ret = [t \in Threads |-> None]
  /\ dispatched = [t \in Threads |-> NoWorker]
  /\ calls = 0
  /\ log = <<>>
  /\ ApartInit

WorkSpec == WorkInit /\ [][WorkNext]_vars

\* No Manager is built yet and nobody is calling one.
Unbuilt ==
  /\ agentConfigs = AgentIDs
  /\ store = FreshRow
  /\ activeAgent = None
  /\ agentHistory = <<>>
  /\ agents = [a \in AgentIDs |-> NoWorker]
  /\ mu = [writer |-> NoThread, readers |-> {}]
  /\ pc = [t \in Threads |-> "idle"]
  /\ op = [t \in Threads |-> None]
  /\ arg = [t \in Threads |-> None]
  /\ history = [t \in Threads |-> <<>>]
  /\ agt = [t \in Threads |-> NoWorker]
  /\ pre = [t \in Threads |-> NoPre]
  /\ ret = [t \in Threads |-> None]
  /\ dispatched = [t \in Threads |-> NoWorker]
  /\ calls = 0
  /\ log = <<>>

\* ------------------------------------------------------ App.GetAgentManager
\* The App's registry of Managers, AgentManagers (a csync.Map: each Get and
\* each Set is atomic by itself), and goroutines calling GetAgentManager.  A
\* Manager is known by the goroutine that built it and the call it was built
\* in; manager[t] is the local variable of goroutine t, and what its call
\* returned once pc[t] is "done".
ErrCreateManager == "failed to create agent manager"

AppFrames == <<agentConfigs, agents, activeAgent, agentHistory, mu, store, history,
               agt, pre, dispatched, log, busy, entries, loaded>>

\* Lines 93-96: the registry is asked; a Manager found there is returned.
GetAgentManager_93(t, sessionID) ==
  /\ pc[t] \in {"idle", "done"}
  /\ calls < MaxAppCalls
  /\ calls' = calls + 1
  /\ op' = [op EXCEPT ![t] = "GetAgentManager"]
  /\ arg' = [arg EXCEPT ![t] = sessionID]
  /\ IF AgentManagers[sessionID] # NoManager
     THEN /\ manager' = [manager EXCEPT ![t] = AgentManagers[sessionID]]
          /\ ret' = [ret EXCEPT ![t] = Ok]
          /\ pc' = [pc EXCEPT ![t] = "done"]
     ELSE /\ manager' = [manager EXCEPT ![t] = NoManager]
          /\ ret' = [ret EXCEPT ![t] = None]
          /\ pc' = [pc EXCEPT ![t] = "gam99"]
  /\ UNCHANGED <<AgentManagers, AppFrames>>

\* Lines 99-112: NewManager builds a Manager, or fails and the error is
\* returned.
GetAgentManager_99(t) ==
  /\ pc[t] = "gam99"
  /\ \/ /\ manager' = [manager EXCEPT ![t] = [by |-> t, n |-> calls]]
        /\ pc' = [pc EXCEPT ![t] = "gam115"]
        /\ UNCHANGED ret
     \/ /\ ret' = [ret EXCEPT ![t] = ErrCreateManager]
        /\ pc' = [pc EXCEPT ![t] = "done"]
        /\ UNCHANGED manager
  /\ UNCHANGED <<AgentManagers, op, arg, calls, AppFrames>>

\* Lines 115-116: the Manager is registered and returned.
GetAgentManager_115(t) ==
  /\ pc[t] = "gam115"
  /\ AgentManagers' = [AgentManagers EXCEPT ![arg[t]] = manager[t]]
  /\ ret' = [ret EXCEPT ![t] = Ok]
  /\ pc' = [pc EXCEPT ![t] = "done"]
  /\ UNCHANGED <<manager, op, arg, calls, AppFrames>>

AppInit == Unbuilt /\ ApartInit

AppNext ==
  \E t \in Threads :
    \/ \E sessionID \in SessionIDs : GetAgentManager_93(t, sessionID)
    \/ GetAgentManager_99(t)
    \/ GetAgentManager_115(t)

AppSpec == AppInit /\ [][AppNext]_vars

\* -------------------------------------------------- LoadAgentsFromDirectory
\* What a directory entry can be: a file that is no YAML file, a directory
\* with a YAML name, a YAML file that does not parse, one that parses with no
\* name, one with a name and no id key, and two complete ones.  name is the
\* name key's value ("" when absent), id tells whether there is an id key.
Kinds ==
  {[ext |-> ".md", dir |-> FALSE, parses |-> FALSE, name |-> "", id |-> FALSE],
   [ext |-> ".yaml", dir |-> TRUE, parses |-> FALSE, name |-> "", id |-> FALSE],
   [ext |-> ".yaml", dir |-> FALSE, parses |-> FALSE, name |-> "", id |-> FALSE],
   [ext |-> ".yaml", dir |-> FALSE, parses |-> TRUE, name |-> "", id |-> TRUE],
   [ext |-> ".yaml", dir |-> FALSE, parses |-> TRUE, name |-> "No ID Agent", id |-> FALSE],
   [ext |-> ".yaml", dir |-> FALSE, parses |-> TRUE, name |-> "Coder", id |-> TRUE],
   [ext |-> ".yml", dir |-> FALSE, parses |-> TRUE, name |-> "Task", id |-> TRUE]}

\* File names, by position in the directory listing.
Stems == <<"a", "b", "c", "d", "e">>

\* The directory listing made of the kinds ks.
Listing(ks) ==
  [i \in 1..Len(ks) |->
     [file |-> Stems[i] \o ks[i].ext, ext |-> ks[i].ext, dir |-> ks[i].dir,
      parses |-> ks[i].parses, name |-> ks[i].name, id |-> ks[i].id]]

\* Lines 82-84, GenerateID: the name in lower case with "-" for each space.
GenerateID(name) ==
  CASE name = "Coder" -> "coder"
    [] name = "Task" -> "task"
    [] name = "No ID Agent" -> "no-id-agent"
    [] OTHER -> name

\* Lines 238-269: the two files createDefaultAgentConfigs writes.
DefaultEntries ==
  <<[file |-> "coder.yaml", ext |-> ".yaml", dir |-> FALSE, parses |-> TRUE,
     name |-> "Coder", id |-> FALSE],
    [file |-> "task.yaml", ext |-> ".yaml", dir |-> FALSE, parses |-> TRUE,
     name |-> "Task", id |-> FALSE]>>

\* Lines 155-160 and 177-185: the entries the loader takes for YAML files.
IsYAML(e) == ~e.dir /\ e.ext \in {".yaml", ".yml"}

\* Lines 188-204: the files the loop records in loadErrors: those
\* LoadAgentConfig fails on and those whose Name is empty.
FailsToLoad(e) == ~e.parses \/ e.name = ""

Nil == [nil |-> TRUE]

\* Lines 172-225: the loop over the entries and the result.
LoadResult(es) ==
  LET yaml == {i \in 1..Len(es) : IsYAML(es[i])}
      bad == {i \in yaml : FailsToLoad(es[i])}
      good == yaml \ bad
  IN IF bad # {}
     THEN [called |-> TRUE, err |-> TRUE, files |-> {es[i].file : i \in bad},
           agents |-> Nil, prompts |-> Nil]
     ELSE [called |-> TRUE, err |-> FALSE, files |-> {},
           agents |-> {GenerateID(es[i].name) : i \in good},
           prompts |-> {GenerateID(es[i].name) : i \in good}]

\* LoadAgentsFromDirectory (lines 140-226): skip tells whether
\* TULPA_SKIP_DEFAULT_AGENTS is set; when the directory has no YAML file and
\* it is not, the default files are written first (which can fail).
LoadAgentsFromDirectory ==
  /\ loaded = NotLoaded
  /\ \E skip \in BOOLEAN :
       IF {i \in 1..Len(entries) : IsYAML(entries[i])} = {} /\ ~skip
       THEN \/ /\ entries' = entries \o DefaultEntries
               /\ loaded' = LoadResult(entries')
            \/ /\ UNCHANGED entries
               /\ loaded' = [called |-> TRUE, err |-> TRUE, files |-> {},
                             agents |-> Nil, prompts |-> Nil]
       ELSE /\ UNCHANGED entries
            /\ loaded' = LoadResult(entries)
  /\ UNCHANGED <<agentConfigs, agents, activeAgent, agentHistory, mu, store, pc, op,
                 arg, history, agt, pre, ret, dispatched, calls, log, busy,
                 AgentManagers, manager>>

LoadInit ==
  /\ Unbuilt
  /\ busy = {}
  /\ AgentManagers = [s \in SessionIDs |-> NoManager]
  /\ manager = [t \in Threads |-> NoManager]
  /\ entries \in {Listing(ks) : ks \in UNION {[1..n -> Kinds] : n \in 0..MaxEntries}}
  /\ loaded = NotLoaded

LoadNext == LoadAgentsFromDirectory

LoadSpec == LoadInit /\ [][LoadNext]_vars

\* ================================================================ claims
Mutators == {"SwitchAgent", "CycleNext", "CyclePrevious"}

\* h with every x taken out, then x at the end.
MoveToEnd(h, x) == Append(SelectSeq(h, LAMBDA e : e # x), x)

\* The tail invariant of a history/active pair.
Consistent(a, h) == NoDup(h) /\ (h # <<>> => Last(h) = a)

C3_UnknownSwitchRejected ==
  [][\A t \in Threads :
       (pc[t] = "idle" /\ op'[t] = "SwitchAgent" /\ arg'[t] \notin agentConfigs) =>
         /\ pc'[t] = "done"
         /\ ret'[t] = ErrAgentNotFound
         /\ UNCHANGED <<activeAgent, agentHistory, agents, store, mu>>]_vars

\* C3 witness: SwitchAgent("ghost") has returned ErrAgentNotFound.
C3_Witness ==
  \E t \in Threads :
    /\ pc[t] = "done" /\ op[t] = "SwitchAgent" /\ arg[t] = UnknownID
    /\ ret[t] = ErrAgentNotFound
    /\ pre[t] = Snapshot

\* Positions between the first and the last write of a switch or cycle.
UpdatePCs == {"sw130", "sw134", "sw140", "sw141", "si266", "si270", "si276", "si277"}

\* (a) The step that completes a switch or cycle leaves exactly the result of
\* applying it to the state found when it took the lock.
SerialResult ==
  \A t \in Threads :
    (pc[t] \in {"sw141", "si277"} /\ pc'[t] = "done")
      => (activeAgent' = arg[t] /\ agentHistory' = MoveToEnd(pre[t].history, arg[t]))

\* (b) activeAgent and agentHistory are changed only by steps of the
\* goroutine holding the write lock.
OnlyWriterWrites ==
  (activeAgent' # activeAgent \/ agentHistory' # agentHistory)
    => (mu.writer # NoThread /\ pc'[mu.writer] # pc[mu.writer])

\* (c) While an update is in progress its goroutine holds the write lock,
\* nobody holds the read lock and no other update is in progress.
UpdateExclusive ==
  \A t \in Threads :
    pc'[t] \in UpdatePCs
      => (mu'.writer = t /\ mu'.readers = {}
          /\ \A u \in Threads \ {t} : pc'[u] \notin UpdatePCs)

\* C4: switches and cycles are serialized: their results are those of
\* applying them one after the other in lock-acquisition order, and a reader
\* holding the lock never sees activeAgent updated and agentHistory not.
C4_SwitchesSerialized == [][SerialResult /\ OnlyWriterWrites /\ UpdateExclusive]_vars

\* C4 witness: a switch is half done (activeAgent written, agentHistory not
\* yet) while another goroutine is free to call SwitchAgent or CycleNext.
C4_Witness ==
  \E t, u \in Threads :
    /\ t # u
    /\ pc[t] \in {"sw134", "si270"} /\ mu.writer = t
    /\ activeAgent # pre[t].active
    /\ pc[u] = "idle" /\ calls < MaxCalls

\* Positions after the factory was called (line 295) and before the worker
\* is stored (line 300).
FactoryPCs == {"gai295", "gai300"}

\* C5: for one agent id the factory is never invoked by two callers: no two
\* goroutines are past the factory call of line 295 for the same id.
C5_FactoryOncePerId ==
  \A t, u \in Threads :
    (t # u /\ pc[t] \in FactoryPCs /\ pc[u] \in FactoryPCs) => arg[t] # arg[u]

\* C6: an entry of the worker map, once stored, is never replaced or removed.
C6_WorkerEntryStable ==
  [][\A a \in AgentIDs : agents[a] # NoWorker => agents'[a] = agents[a]]_vars

\* C7: the worker whose Run is invoked by Run is a worker of the agent id
\* that was active when Run read it under the read lock, whatever the active
\* agent is at dispatch.
C7_RunUsesCapturedAgent ==
  \A t \in Threads :
    (op[t] = "Run" /\ dispatched[t] # NoWorker) => dispatched[t].id = pre[t].active

\* C7 witness: a Run has dispatched to the captured agent's worker after a
\* switch changed the active agent.
C7_Witness ==
  \E t \in Threads :
    /\ pc[t] = "done" /\ op[t] = "Run" /\ dispatched[t] # NoWorker
    /\ activeAgent # pre[t].active

C9_SwitchPersists ==
  [][\A t \in Threads :
       (pc[t] \in {"sw141", "si277"} /\ pc'[t] = "done") =>
         store' = [active |-> activeAgent', history |-> jsonMarshal(agentHistory')]]_vars

\* C10: the session row is always uncorrupted: its history has no duplicate
\* and, if non-empty, ends with the row's active id.
C10_StoredStateConsistent == Consistent(store.active, jsonUnmarshal(store.history))

\* ------------------------------------------------ claims on a lone caller
\* Rank of the ids in lexicographic order.
LexRank == [a \in AgentIDs |-> CASE a = "coder" -> 1 [] a = "docs" -> 2 [] a = "reviewer" -> 3]

\* The ids of S in lexicographic order.
SortLex(S) == CHOOSE s \in Perms(S) : \A i, j \in 1..Len(s) : i < j => LexRank[s[i]] < LexRank[s[j]]

\* The lexicographically smallest id of S.
LexMin(S) == CHOOSE a \in S : \A b \in S : LexRank[a] <= LexRank[b]

\* The last n calls of the log were all o and all returned nil.
LastCallsAre(n, o) ==
  /\ Len(log) >= n + 1
  /\ \A i \in (Len(log) - n + 1)..Len(log) : log[i].op = o /\ log[i].ret = Ok

\* C11: once CycleNext has been called N times in a row, N the number of
\* configured agents, starting with a configured agent active, the active
\* agent is the one that was active before the first of these calls.
C11_CycleNextClosure ==
  (/\ agentConfigs # {}
   /\ LastCallsAre(Cardinality(agentConfigs), "CycleNext")
   /\ log[Len(log) - Cardinality(agentConfigs) + 1].from \in agentConfigs)
    => activeAgent = log[Len(log) - Cardinality(agentConfigs) + 1].from

\* C12: after CycleNext, made with a configured agent active, followed at
\* once by CyclePrevious the active agent is the one that was active before
\* the CycleNext.
C12_PreviousUndoesNext ==
  (/\ Len(log) >= 3
   /\ log[Len(log) - 1].op = "CycleNext" /\ Last(log).op = "CyclePrevious"
   /\ log[Len(log) - 1].from \in agentConfigs)
    => activeAgent = log[Len(log) - 1].from

\* C13: after an accepted SwitchAgent(x), made with a configured agent
\* active, followed at once by CyclePrevious the active agent is the one that
\* was active before the switch.
C13_PreviousUndoesSwitch ==
  (/\ Len(log) >= 3
   /\ log[Len(log) - 1].op = "SwitchAgent" /\ log[Len(log) - 1].ret = Ok
   /\ Last(log).op = "CyclePrevious"
   /\ log[Len(log) - 1].from \in agentConfigs)
    => activeAgent = log[Len(log) - 1].from

\* The cycling order the claim states: the configured ids of the history,
\* oldest first, then the configured ids not in it, sorted.
SortedOrder ==
  SelectSeq(agentHistory, LAMBDA id : id \in agentConfigs)
    \o SortLex(agentConfigs \ Range(agentHistory))

\* 0-based position of the active agent in that order.
SortedIndex ==
  IF IndexOf(SortedOrder, activeAgent) = 0 THEN 0 ELSE IndexOf(SortedOrder, activeAgent) - 1

\* C14: with a configured agent active, a CycleNext makes
\* order[(index + 1) mod len] active and a CyclePrevious
\* order[(index - 1 + len) mod len], where order is the history followed by
\* the sorted unvisited ids: the target is a function of the state.
C14_CycleOrderDeterministic ==
  [][(Len(log') = Len(log) + 1 /\ log # <<>> /\ activeAgent \in agentConfigs) =>
       /\ Last(log').op = "CycleNext" =>
            activeAgent' = SortedOrder[((SortedIndex + 1) % Len(SortedOrder)) + 1]
       /\ Last(log').op = "CyclePrevious" =>
            activeAgent' = SortedOrder[((SortedIndex - 1 + Len(SortedOrder)) % Len(SortedOrder)) + 1]]_vars

\* The calls of the scenario and the agent each must leave active.
ScenarioCalls ==
  <<[op |-> "CycleNext", arg |-> None], [op |-> "CycleNext", arg |-> None],
    [op |-> "CycleNext", arg |-> None], [op |-> "SwitchAgent", arg |-> "docs"],
    [op |-> "CyclePrevious", arg |-> None]>>
ScenarioActive == <<"reviewer", "docs", "coder", "docs", "coder">>

\* The calls made on the Manager so far are the first ones of the scenario.
InScenario ==
  /\ agentConfigs = {"coder", "reviewer", "docs"}
  /\ log # <<>> /\ log[1].ret = Ok /\ log[1].loadErr /\ log[1].to = "coder"
  /\ Len(log) - 1 <= Len(ScenarioCalls)
  /\ \A i \in 1..(Len(log) - 1) :
       /\ log[i + 1].op = ScenarioCalls[i].op
       /\ ScenarioCalls[i].op = "SwitchAgent" => log[i + 1].arg = ScenarioCalls[i].arg

\* C15: on a Manager over {coder, reviewer, docs} that started with the
\* default coder, CycleNext, CycleNext, CycleNext, SwitchAgent("docs"),
\* CyclePrevious leave reviewer, docs, coder, docs, coder active in turn.
C15_Scenario ==
  InScenario => \A i \in 1..(Len(log) - 1) : log[i + 1].to = ScenarioActive[i]

SortedDefault(cfg) == IF "coder" \in cfg THEN "coder" ELSE LexMin(cfg)

\* C17: a NewManager whose load failed leaves the default agent active,
\* coder if configured and the lexicographically smallest id otherwise, and
\* the history holding exactly that id.
C17_DeterministicDefault ==
  (Len(log) = 1 /\ log[1].ret = Ok /\ log[1].loadErr) =>
    /\ activeAgent = SortedDefault(agentConfigs)
    /\ agentHistory = <<SortedDefault(agentConfigs)>>

\* C18: right after a successful NewManager the active agent is a configured
\* one.
C18_ActiveConfigured ==
  (Len(log) = 1 /\ log[1].ret = Ok) => activeAgent \in agentConfigs

\* C19: NewManager over no descriptors returns ErrNoAgentsConfigured having
\* made no call of sessionSvc.Get and none of agentFactory; no Manager
\* exists and no call on one follows.
C19_NoAgentsConfigured ==
  (agentConfigs = {} /\ log # <<>>) =>
    /\ Len(log) = 1
    /\ log[1].op = "NewManager" /\ log[1].ret = ErrNoAgentsConfigured
    /\ log[1].gets = 0 /\ log[1].made = 0
    /\ activeAgent = None /\ agentHistory = <<>>
    /\ \A a \in AgentIDs : agents[a] = NoWorker

\* C19 witness: NewManager was called with no descriptors.
C19_Witness == agentConfigs = {} /\ log # <<>> /\ log[1].op = "NewManager"

\* The methods that must not construct a worker.
LazyOps == {"NewManager", "SwitchAgent", "CycleNext", "CyclePrevious"}

C21_FactoryFailureNotSticky ==
  [][(/\ Len(log') = Len(log) + 1
      /\ Last(log').op = "CurrentAgent"
      /\ activeAgent \in agentConfigs
      /\ agents[activeAgent] = NoWorker) =>
       /\ Last(log').made = 1
       /\ Last(log').ret \in {Ok, "failed to create agent " \o activeAgent}
       /\ Last(log').ret # Ok => agents' = agents
       /\ Last(log').ret = Ok =>
            /\ agents'[activeAgent] # NoWorker
            /\ \A a \in AgentIDs \ {activeAgent} : agents'[a] = agents[a]
       /\ UNCHANGED <<activeAgent, agentHistory>>]_vars

\* C21 witness: the factory failed for the active agent, and the next call
\* resolving the same agent called the factory again and got its worker.
C21_Witness ==
  \E i \in 2..(Len(log) - 1) :
    /\ log[i].op = "CurrentAgent" /\ log[i].made = 1 /\ log[i].ret # Ok
    /\ log[i + 1].op = "CurrentAgent" /\ log[i + 1].arg = log[i].arg
    /\ log[i + 1].made = 1 /\ log[i + 1].ret = Ok
    /\ agents[log[i].arg] # NoWorker

\* C22: the write of the session row that a Run makes leaves there the id of
\* the agent whose worker the run is about to go to, with the Manager's
\* history.
C22_RunPersistsCapturedState ==
  [][\A t \in Threads :
       (pc[t] = "save106" /\ pc'[t] = "run317" /\ ret'[t] # ErrStore) =>
         /\ store'.active = agt[t].id
         /\ store'.history = jsonMarshal(agentHistory)]_vars

\* C23: a Run whose save failed goes on: its next step calls Run of the
\* worker of the agent it captured, it then returns what the worker returned,
\* and none of these steps changes activeAgent or agentHistory.
C23_StoreFailureNonFatal ==
  [][\A t \in Threads :
       /\ (pc[t] = "save106" /\ pc'[t] # pc[t]) =>
            (pc'[t] = "run317" /\ UNCHANGED <<activeAgent, agentHistory>>)
       /\ (pc[t] = "run317" /\ ret[t] = ErrStore /\ pc'[t] # pc[t]) =>
            /\ pc'[t] = "run318"
            /\ dispatched'[t] = agt[t] /\ agt[t].id = pre[t].active
            /\ UNCHANGED <<activeAgent, agentHistory>>
       /\ (pc[t] = "run318" /\ ret[t] = ErrStore /\ pc'[t] # pc[t]) =>
            /\ ret'[t] # ErrStore
            /\ UNCHANGED <<activeAgent, agentHistory>>]_vars

\* C23 witness: the save of a Run failed and the run is in progress on the
\* worker of the captured agent.
C23_Witness ==
  \E t \in Threads :
    /\ pc[t] = "run318" /\ op[t] = "Run" /\ ret[t] = ErrStore
    /\ dispatched[t] # NoWorker /\ dispatched[t].id = pre[t].active

\* C24: a goroutine whose Run has called the worker, or is about to, holds
\* the Manager's lock neither for reading nor for writing.
C24_NoLockDuringRun ==
  \A t \in Threads :
    pc[t] \in {"run317", "run318"} => (mu.writer # t /\ t \notin mu.readers)

\* C24 witness: while a run is in progress another goroutine holds the write
\* lock for a switch or cycle, and a third party could take the read lock
\* once it is done.
C24_Witness ==
  \E t, u \in Threads :
    /\ pc[t] = "run318" /\ op[t] = "Run"
    /\ t # u /\ mu.writer = u /\ op[u] \in Mutators

\* C28: a RunAs whose target, the given sub-agent or else the parent's
\* default, is not in the parent's allow-list returns ErrAgentNotAvailable
\* in the step it is made: no worker is constructed or called; and the worker
\* a RunAs calls is one of the parent's allowed sub-agents.
C28_RunAsNotAvailable ==
  [][\A t \in Threads :
       /\ (pc[t] = "idle" /\ op'[t] = "RunAs") =>
            /\ arg'[t] = IF pre'[t].sub = None THEN DefaultSubagent[pre'[t].parent]
                         ELSE pre'[t].sub
            /\ arg'[t] \notin AllowedSubagents[pre'[t].parent] =>
                 /\ pc'[t] = "done" /\ ret'[t] = ErrAgentNotAvailable
                 /\ UNCHANGED <<agents, dispatched, mu, activeAgent, agentHistory>>
       /\ (op[t] = "RunAs" /\ dispatched'[t] # NoWorker) =>
            dispatched'[t].id \in AllowedSubagents[pre[t].parent]]_vars

\* C28 witness: a RunAs naming a sub-agent outside the parent's allow-list
\* was refused, while one naming no sub-agent has resolved the worker of the
\* parent's default.
C28_Witness ==
  \E t, u \in Threads :
    /\ pc[t] = "done" /\ op[t] = "RunAs"
    /\ pre[t].sub # None /\ pre[t].sub \notin AllowedSubagents[pre[t].parent]
    /\ ret[t] = ErrAgentNotAvailable /\ dispatched[t] = NoWorker
    /\ op[u] = "RunAs" /\ pre[u].sub = None /\ agt[u] # NoWorker
    /\ agt[u].id = DefaultSubagent[pre[u].parent]

\* C25: a Cancel calls Cancel of the active agent's worker and of no other
\* worker, no other worker stops working, and activeAgent and agentHistory
\* are left as they were.
C25_CancelOnlyActive ==
  [][(calls' = calls + 1 /\ log'[1].op = "Cancel") =>
       /\ UNCHANGED <<activeAgent, agentHistory>>
       /\ IF log'[1].ret = Ok
          THEN log'[1].sent = <<agents'[activeAgent]>> /\ agents'[activeAgent] # NoWorker
          ELSE log'[1].sent = <<>>
       /\ \A a \in AgentIDs \ {activeAgent} : (a \in busy') = (a \in busy)]_vars

\* C25 witness: a Cancel went to the active agent's worker while the worker
\* of another agent was at work, and that one is still at work.
C25_Witness ==
  /\ log # <<>> /\ log[1].op = "Cancel" /\ Len(log[1].sent) = 1
  /\ \E a \in AgentIDs \ {activeAgent} : agents[a] # NoWorker /\ a \in busy

\* C26: a CancelAll calls CancelAll of every worker in the map, each exactly
\* once, and changes neither the map nor activeAgent nor agentHistory.
C26_CancelAllEveryWorker ==
  [][(calls' = calls + 1 /\ log'[1].op = "CancelAll") =>
       /\ Range(log'[1].sent) = {agents[a] : a \in {x \in AgentIDs : agents[x] # NoWorker}}
       /\ NoDup(log'[1].sent)
       /\ UNCHANGED <<agents, activeAgent, agentHistory>>]_vars

\* C26 witness: a CancelAll was made with two workers in the map, one of
\* them not the active agent's.
C26_Witness ==
  /\ log # <<>> /\ log[1].op = "CancelAll" /\ Len(log[1].sent) >= 2

\* C27: IsBusy answers true exactly when a worker in the map is busy;
\* IsSessionBusy answers what the active agent's worker answers for the
\* session, and false when that worker cannot be resolved.
C27_BusyQueries ==
  [][/\ (calls' = calls + 1 /\ log'[1].op = "IsBusy") =>
          (log'[1].is = (\E a \in AgentIDs : agents[a] # NoWorker /\ a \in busy))
     /\ (calls' = calls + 1 /\ log'[1].op = "IsSessionBusy") =>
          /\ log'[1].ret # Ok => (log'[1].is = FALSE /\ agents'[activeAgent] = NoWorker)
          /\ log'[1].ret = Ok =>
               (agents'[activeAgent] # NoWorker /\ log'[1].is = (activeAgent \in busy))]_vars

\* C27 witness: IsBusy answered true although the active agent's worker is
\* not busy: the busy worker is another one of the map.
C27_Witness ==
  /\ log # <<>> /\ log[1].op = "IsBusy" /\ log[1].is
  /\ activeAgent \notin busy

\* C29: two calls of GetAgentManager for one session id that both returned a
\* Manager returned the same Manager.
C29_OneManagerPerSession ==
  \A t, u \in Threads :
    (/\ pc[t] = "done" /\ pc[u] = "done"
     /\ op[t] = "GetAgentManager" /\ op[u] = "GetAgentManager"
     /\ arg[t] = arg[u] /\ ret[t] = Ok /\ ret[u] = Ok)
    => manager[t] = manager[u]

\* C30: when a YAML file of the directory does not parse or has no id key,
\* LoadAgentsFromDirectory returns an error naming that file, with nil agent
\* and prompt maps; files that are no YAML files play no part.
C30_LoadAllOrNothing ==
  loaded.called =>
    \A i \in 1..Len(entries) :
      IF IsYAML(entries[i])
      THEN (~entries[i].parses \/ ~entries[i].id) =>
             /\ loaded.err /\ entries[i].file \in loaded.files
             /\ loaded.agents = Nil /\ loaded.prompts = Nil
      ELSE entries[i].file \notin loaded.files

\* C31: a goroutine that is about to call the worker factory (line 295) or to
\* write the session row (line 106) holds the Manager's lock neither for
\* reading nor for writing.
C31_NoIOUnderLock ==
  \A t \in Threads :
    pc[t] \in {"gai295", "save106"} => (t \notin mu.readers /\ mu.writer # t)

\* C32: a Run on a Manager whose active agent is not configured returns
\* ErrAgentNotFound, and a Run that returns it or the factory's error has
\* called no worker, has written nothing to the session row, and has left
\* activeAgent and agentHistory as they were.
C32_RunResolutionFailure ==
  [][(calls' = calls + 1 /\ log'[1].op = "Run") =>
       /\ activeAgent \notin agentConfigs => log'[1].ret = ErrAgentNotFound
       /\ log'[1].ret \in {ErrAgentNotFound, ErrFactory(activeAgent)} =>
            /\ log'[1].sent = <<>>
            /\ UNCHANGED <<store, busy, activeAgent, agentHistory>>]_vars

\* C32 witness: a Run was refused with ErrAgentNotFound because the active
\* agent is not configured.
C32_Witness ==
  /\ log # <<>> /\ log[1].op = "Run" /\ log[1].ret = ErrAgentNotFound
  /\ activeAgent \notin agentConfigs

\* C35: Cancel, IsSessionBusy, IsBusy and CancelAll leave the worker map as
\* it was: none of them constructs a worker.
C35_QueriesConstructNothing ==
  [][(calls' = calls + 1 /\
      log'[1].op \in {"Cancel", "IsSessionBusy", "IsBusy", "CancelAll"}) =>
       agents' = agents]_vars

\* C36: a Cancel made while one run is in flight calls Cancel of the worker
\* that executes that run.
C36_CancelReachesRun ==
  [][(calls' = calls + 1 /\ log'[1].op = "Cancel" /\ Cardinality(busy) = 1) =>
       busy \subseteq IDs(log'[1].sent)]_vars

\* C34: while a goroutine is about to insert into the worker map (line 300),
\* no other goroutine is about to look the map up (line 284) or to insert
\* into it.
C34_MapWriteExclusive ==
  \A t, u \in Threads :
    (t # u /\ pc[t] = "gai300") => pc[u] \notin {"gai284", "gai300"}

\* The configured ids of the history, oldest first.
ConfiguredHistory == SelectSeq(agentHistory, LAMBDA id : id \in agentConfigs)

\* C37: a CyclePrevious made with a configured agent active and at least two
\* configured ids in the history makes active the second most recent of
\* them, so that a CyclePrevious right after a CyclePrevious goes back to the
\* agent the first one left; with a single id in the history it makes active
\* the last id of the cycling order.
C37_PreviousAlternates ==
  [][(Len(log') = Len(log) + 1 /\ Last(log').op = "CyclePrevious"
        /\ activeAgent \in agentConfigs) =>
       /\ Cardinality(Range(ConfiguredHistory)) >= 2 =>
            /\ activeAgent' = ConfiguredHistory[Len(ConfiguredHistory) - 1]
            /\ activeAgent' # activeAgent
            /\ (Last(log).op = "CyclePrevious" /\ Last(log).from \in agentConfigs
                  /\ Last(log).from # Last(log).to) => activeAgent' = Last(log).from
       /\ (Len(agentHistory) = 1 /\ Cardinality(agentConfigs) >= 2) =>
            \E rest \in RestOrders : activeAgent' = Last(ConfiguredHistory \o rest)]_vars

\* C38: with at least two agents configured, a CycleNext or CyclePrevious
\* returns nil and makes active a configured agent other than the one that
\* was active.
C38_CycleChangesAgent ==
  [][(Len(log') = Len(log) + 1 /\ Last(log').op \in {"CycleNext", "CyclePrevious"}
        /\ Cardinality(agentConfigs) >= 2) =>
       /\ Last(log').ret = Ok
       /\ activeAgent' \in agentConfigs
       /\ activeAgent' # activeAgent]_vars

\* C39: a Shutdown calls a cancel on every worker in the Manager's map, so
\* that no worker is at work after it.
C39_ShutdownCancelsAll ==
  [][(calls' = calls + 1 /\ log'[1].op = "Shutdown") =>
       /\ {agents[a] : a \in {x \in AgentIDs : agents[x] # NoWorker}}
            \subseteq Range(log'[1].sent)
       /\ busy' = {}]_vars

\* C33: a Close that has taken the write lock while no other call is in
\* progress returns in the end.
C33_CloseTerminates ==
  \A t \in Threads :
    (pc[t] = "close385" /\ \A u \in Threads \ {t} : pc[u] = "idle")
      ~> (pc[t] = "done")
====
